---- MODULE Spec2Model ----
(***************************************************************************)
(* Mean-variance portfolio analytics (src/src/portfolio_core.py).          *)
(*                                                                         *)
(* Numbers.  Reals are fixed-point integers, each quantity in its own      *)
(* unit, so that the arithmetic of the code is exact where the code's is:  *)
(*   - a weight vector of n assets is a tuple of integers in units of      *)
(*     1/n: the equal-weight vector np.ones(n) / n is 1 each;              *)
(*   - mu and sigma entries are integers;                                  *)
(*   - a target return is a rational [num, den] (np.linspace divides);     *)
(*   - a float result (volatility, Sharpe) is a record: a number, NaN or   *)
(*     an infinity, with IEEE-754 rules for sqrt, division and order.      *)
(* Calls.  A Python call returns or raises: an outcome is a record with    *)
(* raised = "none" and a value, or raised = the exception's name.          *)
(***************************************************************************)
EXTENDS Integers, Sequences, FiniteSets, TLC

VARIABLES mu, sigma, prices, pc, points, targets, calls, res, data, sorted, df, out

vars == <<mu, sigma, prices, pc, points, targets, calls, res, data, sorted, df, out>>

(* ---------------------------- bounds ----------------------------------- *)
MaxMu == 1
MaxVar == 1
MaxPoints == 3
MaxDraws == 2
MaxRows == 3
MaxRf == 1

(* fixed-point resolutions of the float results *)
VolRes == 10
SharpeRes == 10

(* ---------------------------- floats ----------------------------------- *)
Num(v) == [k |-> "num", v |-> v]
NaN == [k |-> "nan", v |-> 0]
PosInf == [k |-> "inf", v |-> 1]
NegInf == [k |-> "inf", v |-> -1]

IsNaN(f) == f.k = "nan"

RECURSIVE ISqrt(_)
ISqrt(r) ==
  IF r < 2 THEN r
  ELSE LET s == 2 * ISqrt(r \div 4)
       IN IF (s + 1) * (s + 1) <= r THEN s + 1 ELSE s

\* np.sqrt: NaN (and a RuntimeWarning, no exception) on a negative argument.
\* The argument is a radicand in units of 1/W^2; the result is in units of
\* 1/(W * VolRes).
FSqrt(r) == IF r < 0 THEN NaN ELSE Num(ISqrt(r * VolRes * VolRes))

\* vol > 0 on a float: False on NaN.
FGt0(f) == \/ f.k = "inf" /\ f.v > 0
           \/ f.k = "num" /\ f.v > 0

\* a / f for an exact numerator a (units 1/W) and a float f (units
\* 1/(W * VolRes)), IEEE-754: x/0 is an infinity, 0/0 and x/NaN are NaN.
FDiv(a, f) ==
  CASE f.k = "nan" -> NaN
    [] f.k = "inf" -> Num(0)
    [] f.k = "num" /\ f.v = 0 ->
         IF a > 0 THEN PosInf ELSE IF a < 0 THEN NegInf ELSE NaN
    [] OTHER -> Num((a * VolRes * SharpeRes) \div f.v)

FNeg(f) == IF f.k = "nan" THEN NaN ELSE [k |-> f.k, v |-> 0 - f.v]

\* a < b on floats (False when either is NaN).
FLt(a, b) ==
  /\ a.k # "nan" /\ b.k # "nan"
  /\ \/ a.k = "num" /\ b.k = "num" /\ a.v < b.v
     \/ a.k = "inf" /\ a.v < 0 /\ ~(b.k = "inf" /\ b.v < 0)
     \/ b.k = "inf" /\ b.v > 0 /\ ~(a.k = "inf" /\ a.v > 0)

FLeq(a, b) == a.k # "nan" /\ b.k # "nan" /\ ~FLt(b, a)

\* rationals [num, den], den > 0
Rat(n, d) == [num |-> n, den |-> d]
RLeq(a, b) == a.num * b.den <= b.num * a.den
RLt(a, b) == a.num * b.den < b.num * a.den

(* ---------------------------- vectors ---------------------------------- *)
RECURSIVE SumTo(_, _)
SumTo(f, k) == IF k = 0 THEN 0 ELSE f[k] + SumTo(f, k - 1)

Sum(v) == SumTo(v, Len(v))

\* a @ b for two vectors
Dot(a, b) == Sum([i \in 1..Len(a) |-> a[i] * b[i]])

\* w @ sigma.values @ w, in units of 1/W^2
Quad(w, s) == Dot([j \in 1..Len(w) |-> Dot(w, [i \in 1..Len(w) |-> s[i][j]])], w)

\* the weight 1.0 in the units of a vector of n weights
W(n) == n

Vectors(n, S) == [1..n -> S]

\* the box bounds=[(0, 1)] * n
Box(n) == Vectors(n, 0..W(n))

\* np.ones(n) / n
EqualWeight(n) == [i \in 1..n |-> 1]

\* non-negative weights that sum to 1
Simplex(n) == {w \in Box(n) : Sum(w) = W(n)}

Min(S) == CHOOSE x \in S : \A y \in S : x <= y
Max(S) == CHOOSE x \in S : \A y \in S : x >= y
Range(f) == {f[i] : i \in DOMAIN f}

(* ---------------------- portfolio_performance -------------------------- *)
\* (ret, vol, sharpe); ret in units of 1/W, rf an integer.
portfolio_performance(w, m, s, rf) ==
  LET ret == Dot(w, m)
      vol == FSqrt(Quad(w, s))
      sharpe == IF FGt0(vol) THEN FDiv(ret - rf * W(Len(w)), vol) ELSE NaN
  IN [raised |-> "none", value |-> <<ret, vol, sharpe>>]

(* ------------------------- _constraints -------------------------------- *)
None == [num |-> 0, den |-> 0]

SumCon == [type |-> "eq", fun |-> "sum", mu |-> <<>>, target |-> None]
RetCon(m, t) == [type |-> "eq", fun |-> "ret", mu |-> m, target |-> t]

\* variant of _constraints that tests the target's truth value
_constraints_truthy(m, target) ==
  IF target # None /\ target.num # 0 THEN <<SumCon, RetCon(m, target)>> ELSE <<SumCon>>

_constraints(m, target) ==
  IF target # None THEN <<SumCon, RetCon(m, target)>> ELSE <<SumCon>>

\* the value of a constraint's lambda at w, scaled by W * den
ConFun(c, w) ==
  IF c.fun = "sum" THEN Sum(w) - W(Len(w))
  ELSE Dot(w, c.mu) * c.target.den - c.target.num * W(Len(w))

Satisfies(w, cons) == \A k \in 1..Len(cons) : ConFun(cons[k], w) = 0

(* ---------------------------- objectives ------------------------------- *)
VolObj(s) == [fun |-> "vol", mu |-> <<>>, sigma |-> s, rf |-> 0]
NegSharpeObj(m, s, rf) == [fun |-> "neg_sharpe", mu |-> m, sigma |-> s, rf |-> rf]

ObjVal(obj, w) ==
  IF obj.fun = "vol" THEN FSqrt(Quad(w, obj.sigma))
  ELSE FNeg(portfolio_performance(w, obj.mu, obj.sigma, obj.rf).value[3])

(* ------------------------ scipy.optimize.minimize ---------------------- *)
\* SLSQP exit modes: 0 is success; 9 (iteration limit reached) stands for
\* the modes that are not (the code reads neither status nor success).
FailModes == {9}

NoResult == [status |-> -1, success |-> FALSE, x |-> <<>>, fun |-> NaN]

\* the points of F at which the objective f (a function on the box) is least
ArgMin(f, F) ==
  {x \in F : /\ ~IsNaN(f[x])
             /\ \A y \in F : IsNaN(f[y]) \/ FLeq(f[x], f[y])}

\* minimize(obj, x0, method="SLSQP", bounds=[(0, 1)] * n, constraints=cons):
\* every result the solver may hand back.  With status 0 the point is a
\* minimiser over the box and the constraints; with any other status it is
\* the iterate the solver stopped at, which is inside the box (SLSQP keeps
\* its iterates within the bounds) and for which the constraints promise
\* nothing.  res.fun is the objective at res.x.  x0 fixes the dimension; the
\* set of possible results does not depend on it otherwise.
minimize(obj, x0, cons) ==
  LET n == Len(x0)
      f == [x \in Box(n) |-> ObjVal(obj, x)]
      Result(st, x) == [status |-> st, success |-> (st = 0), x |-> x, fun |-> f[x]]
  IN {Result(0, x) : x \in ArgMin(f, {y \in Box(n) : Satisfies(y, cons)})}
     \cup {Result(st, x) : st \in FailModes, x \in Box(n)}

(* ----------------------------- _optimize ------------------------------- *)
\* the arguments of one _optimize call
Call(obj, n, cons) == [obj |-> obj, n |-> n, cons |-> cons]

\* variant of _optimize that refuses a result that did not converge
_optimize_strict(obj, n, cons) ==
  {[res |-> r,
    raised |-> IF r.success THEN "none" ELSE "OptimizerNonConvergence",
    value |-> IF r.success THEN <<r.x, r.fun>> ELSE <<>>] :
     r \in minimize(obj, EqualWeight(n), cons)}

\* res = minimize(obj, np.ones(n) / n, ...); return res.x, res.fun
\* every outcome of the call, with the res it came from
_optimize(obj, n, cons) ==
  {[res |-> r, raised |-> "none", value |-> <<r.x, r.fun>>] :
     r \in minimize(obj, EqualWeight(n), cons)}

(* -------------------------- efficient_frontier ------------------------- *)
\* np.linspace(a, b, p): p evenly spaced values from a to b inclusive
Linspace(a, b, p) ==
  IF p = 1 THEN <<Rat(a, 1)>>
  ELSE [i \in 1..p |-> Rat(a * (p - 1) + (i - 1) * (b - a), p - 1)]

Row(t, v) == [return |-> t, volatility |-> v]

\* a precedes b in ascending order of volatility, NaN last
VolatilityLeq(a, b) ==
  \/ IsNaN(b.volatility)
  \/ ~IsNaN(a.volatility) /\ FLeq(a.volatility, b.volatility)

SortedByVolatility(s) ==
  \A j, k \in 1..Len(s) : j < k => VolatilityLeq(s[j], s[k])

\* the sorted table s with the row r put at any place that keeps it sorted
InsertSorted(s, r) ==
  {SubSeq(s, 1, p) \o <<r>> \o SubSeq(s, p + 1, Len(s)) :
     p \in {q \in 0..Len(s) : /\ \A j \in 1..q : VolatilityLeq(s[j], r)
                              /\ \A j \in (q + 1)..Len(s) : VolatilityLeq(r, s[j])}}

RECURSIVE SortedArrangements(_, _)
SortedArrangements(d, k) ==
  IF k = 0 THEN {<<>>}
  ELSE UNION {InsertSorted(s, d[k]) : s \in SortedArrangements(d, k - 1)}

\* variant of sort_values that leaves the table in sweep order
sort_values_none(d) == {d}

\* df.sort_values("volatility"): ascending, NaN last; the default sort is
\* not stable, so rows of equal volatility come out in any order.
sort_values(d) == SortedArrangements(d, Len(d))

\* df["return"].cummax()
RECURSIVE cummax(_, _)
cummax(s, k) ==
  IF k = 1 THEN s[1].return
  ELSE LET m == cummax(s, k - 1)
       IN IF RLt(m, s[k].return) THEN s[k].return ELSE m

\* the rows of s at the positions of K, in order
RECURSIVE SelectRows(_, _, _)
SelectRows(s, k, K) ==
  IF k > Len(s) THEN <<>>
  ELSE (IF k \in K THEN <<s[k]>> ELSE <<>>) \o SelectRows(s, k + 1, K)

\* variant of the filter that stops at the first row below the running
\* maximum
running_max_prefix(s) ==
  SelectRows(s, 1, {k \in 1..Len(s) : \A j \in 1..k : RLeq(cummax(s, j), s[j].return)})

\* df[df["return"] >= df["return"].cummax()]
running_max_filter(s) ==
  SelectRows(s, 1, {k \in 1..Len(s) : RLeq(cummax(s, k), s[k].return)})

(* ------------------------------ inputs --------------------------------- *)
Symmetric(s) == \A i, j \in DOMAIN s : s[i][j] = s[j][i]

Det2(s, i, j) == s[i][i] * s[j][j] - s[i][j] * s[j][i]

Det3(s) ==
    s[1][1] * (s[2][2] * s[3][3] - s[2][3] * s[3][2])
  - s[1][2] * (s[2][1] * s[3][3] - s[2][3] * s[3][1])
  + s[1][3] * (s[2][1] * s[3][2] - s[2][2] * s[3][1])

\* positive semi-definite: every principal minor is non-negative (n <= 3)
IsPSD(s) ==
  /\ \A i \in DOMAIN s : s[i][i] >= 0
  /\ \A i, j \in DOMAIN s : i < j => Det2(s, i, j) >= 0
  /\ Len(s) = 3 => Det3(s) >= 0

Matrices(n) ==
  {s \in [1..n -> [1..n -> (0 - MaxVar)..MaxVar]] :
     Symmetric(s) /\ \A i \in 1..n : s[i][i] >= 0}

\* the asset counts of the model: the single-asset case and the smallest
\* portfolio with a choice of weights (IsPSD is written out for n <= 3)
AssetCounts == {1, 2}

NoOut == [fn |-> "", raised |-> "none", value |-> <<>>]

Idle ==
  /\ pc = "idle" /\ points = 0 /\ targets = <<>> /\ calls = <<>>
  /\ res = NoResult /\ data = <<>> /\ sorted = <<>> /\ df = <<>> /\ out = NoOut

\* Moments as the data model has them: sigma symmetric and PSD
Init ==
  /\ \E n \in AssetCounts :
       /\ mu \in Vectors(n, 0..MaxMu)
       /\ sigma \in {s \in Matrices(n) : IsPSD(s)}
  /\ prices = <<>>
  /\ Idle

(* ------------------------------ actions -------------------------------- *)
\* efficient_frontier, lines 58-59: n and the targets
EfTargets ==
  /\ pc = "idle"
  /\ \E p \in 0..MaxPoints :
       /\ points' = p
       /\ targets' = Linspace(Min(Range(mu)), Max(Range(mu)), p)
  /\ pc' = "sweep"
  /\ UNCHANGED <<mu, sigma, prices, calls, res, data, sorted, df, out>>

\* one iteration of the comprehension of lines 61-68.  The solver is
\* deterministic: a target equal to the one before it gets the same result.
EfSweep ==
  /\ pc = "sweep"
  /\ Len(data) < Len(targets)
  /\ LET t == targets[Len(data) + 1]
         n == Len(mu)
         obj == VolObj(sigma)
         cons == _constraints(mu, t)
         c == Call(obj, n, cons)
     IN \E o \in _optimize(obj, n, cons) :
          /\ (Len(calls) > 0 /\ calls[Len(calls)] = c) => o.res = res
          /\ res' = o.res
          /\ calls' = Append(calls, c)
          /\ IF o.raised # "none"
             THEN /\ out' = [fn |-> "efficient_frontier", raised |-> o.raised, value |-> <<>>]
                  /\ pc' = "done"
                  /\ data' = data
             ELSE /\ data' = Append(data, Row(t, o.value[2]))
                  /\ UNCHANGED <<out, pc>>
  /\ UNCHANGED <<mu, sigma, prices, points, targets, sorted, df>>

\* lines 70-74: the table, sorted, filtered and returned
EfFrame ==
  /\ pc = "sweep"
  /\ Len(data) = Len(targets)
  /\ \E s \in sort_values(data) :
       /\ sorted' = s
       /\ df' = running_max_filter(s)
       /\ out' = [fn |-> "efficient_frontier", raised |-> "none", value |-> running_max_filter(s)]
  /\ pc' = "done"
  /\ UNCHANGED <<mu, sigma, prices, points, targets, calls, res, data>>

\* global_min_variance(mu, sigma)
GlobalMinVariance ==
  /\ pc = "idle"
  /\ LET n == Len(mu)
         obj == VolObj(sigma)
         cons == _constraints(mu, None)
     IN \E o \in _optimize(obj, n, cons) :
          /\ res' = o.res
          /\ calls' = <<Call(obj, n, cons)>>
          /\ out' = IF o.raised # "none"
                    THEN [fn |-> "global_min_variance", raised |-> o.raised, value |-> <<>>]
                    ELSE [fn |-> "global_min_variance", raised |-> "none", value |-> o.value[1]]
  /\ pc' = "done"
  /\ UNCHANGED <<mu, sigma, prices, points, targets, data, sorted, df>>

\* max_sharpe_ratio(mu, sigma, rf)
MaxSharpeRatio ==
  /\ pc = "idle"
  /\ \E rf \in 0..MaxRf :
       LET n == Len(mu)
           obj == NegSharpeObj(mu, sigma, rf)
           cons == _constraints(mu, None)
       IN \E o \in _optimize(obj, n, cons) :
            /\ res' = o.res
            /\ calls' = <<Call(obj, n, cons)>>
            /\ out' = IF o.raised # "none"
                      THEN [fn |-> "max_sharpe_ratio", raised |-> o.raised, value |-> <<>>]
                      ELSE [fn |-> "max_sharpe_ratio", raised |-> "none", value |-> o.value[1]]
  /\ pc' = "done"
  /\ UNCHANGED <<mu, sigma, prices, points, targets, data, sorted, df>>

Next == EfTargets \/ EfSweep \/ EfFrame \/ GlobalMinVariance \/ MaxSharpeRatio

Spec == Init /\ [][Next]_vars

(* --------------- portfolio_performance, simulate_random_portfolios ----- *)
FRow(ret, vol, sharpe) == [return |-> ret, volatility |-> vol, sharpe |-> sharpe]

\* the table of simulate_random_portfolios for the draws ws (one weight
\* vector per row of np.random.dirichlet's result)
simulate_random_portfolios(ws, m, s, rf) ==
  LET ret(i) == Dot(ws[i], m)
      vol(i) == FSqrt(Quad(ws[i], s))
  IN [raised |-> "none",
      value |-> [i \in 1..Len(ws) |->
                   FRow(ret(i), vol(i), FDiv(ret(i) - rf * W(Len(m)), vol(i)))]]

\* any symmetric matrix with a non-negative diagonal: the caller's sigma is
\* not checked by the code
InitPerf ==
  /\ \E n \in AssetCounts :
       /\ mu \in Vectors(n, 0..MaxMu)
       /\ sigma \in Matrices(n)
  /\ prices = <<>>
  /\ Idle

PortfolioPerformance ==
  /\ pc = "idle"
  /\ \E w \in Simplex(Len(mu)), rf \in 0..MaxRf :
       /\ calls' = <<[w |-> w, rf |-> rf]>>
       /\ LET o == portfolio_performance(w, mu, sigma, rf)
          IN out' = [fn |-> "portfolio_performance", raised |-> o.raised, value |-> o.value]
  /\ pc' = "done"
  /\ UNCHANGED <<mu, sigma, prices, points, targets, res, data, sorted, df>>

SimulateRandomPortfolios ==
  /\ pc = "idle"
  /\ \E N \in 1..MaxDraws, rf \in 0..MaxRf :
       \E ws \in [1..N -> Simplex(Len(mu))] :
         /\ calls' = <<[w |-> ws, rf |-> rf]>>
         /\ LET o == simulate_random_portfolios(ws, mu, sigma, rf)
            IN out' = [fn |-> "simulate_random_portfolios", raised |-> o.raised, value |-> o.value]
  /\ pc' = "done"
  /\ UNCHANGED <<mu, sigma, prices, points, targets, res, data, sorted, df>>

NextPerf == PortfolioPerformance \/ SimulateRandomPortfolios

SpecPerf == InitPerf /\ [][NextPerf]_vars

(* ---------------------------- prepare_returns -------------------------- *)
\* prices are powers of two, so that np.log is exact up to its scale:
\* ln(2^e) = e * ln 2, in units of 1/1000
MaxPriceExp == 2
Ln2Milli == 693
Periods == 252

PriceVals == {2 ^ e : e \in 0..MaxPriceExp}
Log2(p) == CHOOSE e \in 0..MaxPriceExp : 2 ^ e = p

\* np.log(p / q)
LogRatio(p, q) == (Log2(p) - Log2(q)) * Ln2Milli

\* a price table: its column count and its rows, oldest first
PriceTable(n, rows) == [cols |-> n, rows |-> rows]

\* np.log(prices / prices.shift(1)).dropna(): the first row of the quotient
\* is NaN (nothing to divide by) and is dropped
LogReturns(pt) ==
  IF Len(pt.rows) = 0 THEN <<>>
  ELSE [t \in 1..(Len(pt.rows) - 1) |->
          [c \in 1..pt.cols |-> LogRatio(pt.rows[t + 1][c], pt.rows[t][c])]]

Column(r, c) == [t \in 1..Len(r) |-> r[t][c]]

\* r.mean() * periods: NaN for a column without rows
MeanTimes(r, c, periods) ==
  IF Len(r) = 0 THEN NaN ELSE Num((Sum(Column(r, c)) \div Len(r)) * periods)

\* r.cov() * periods: the unbiased estimator, NaN with fewer than 2 rows
CovTimes(r, a, b, periods) ==
  LET T == Len(r)
      da(t) == T * r[t][a] - Sum(Column(r, a))
      db(t) == T * r[t][b] - Sum(Column(r, b))
  IN IF T < 2 THEN NaN
     ELSE Num((Sum([t \in 1..T |-> da(t) * db(t)]) \div (T * T * (T - 1))) * periods)

prepare_returns(pt, periods) ==
  LET r == LogReturns(pt)
  IN [raised |-> "none",
      value |-> <<r,
                  [c \in 1..pt.cols |-> MeanTimes(r, c, periods)],
                  [a \in 1..pt.cols |-> [b \in 1..pt.cols |-> CovTimes(r, a, b, periods)]]>>]

InitRet ==
  /\ \E n \in AssetCounts, T \in 0..MaxRows :
       prices \in {PriceTable(n, rows) : rows \in [1..T -> Vectors(n, PriceVals)]}
  /\ mu = <<>> /\ sigma = <<>>
  /\ Idle

PrepareReturns ==
  /\ pc = "idle"
  /\ \E periods \in {1, Periods} :
       /\ calls' = <<[periods |-> periods]>>
       /\ LET o == prepare_returns(prices, periods)
          IN out' = [fn |-> "prepare_returns", raised |-> o.raised, value |-> o.value]
  /\ pc' = "done"
  /\ UNCHANGED <<mu, sigma, prices, points, targets, res, data, sorted, df>>

NextRet == PrepareReturns

SpecRet == InitRet /\ [][NextRet]_vars

(* ============================ properties =============================== *)
Returned(fn) == pc = "done" /\ out.fn = fn

FrontierRunning == pc = "sweep" \/ out.fn = "efficient_frontier"

\* every entry in [0, 1] and the entries sum to 1
IsWeightVector(w) ==
  /\ DOMAIN w = DOMAIN mu
  /\ \A i \in DOMAIN w : w[i] >= 0 /\ w[i] <= W(Len(mu))
  /\ Sum(w) = W(Len(mu))

REq(a, b) == a.num * b.den = b.num * a.den
RSub(a, b) == Rat(a.num * b.den - b.num * a.den, a.den * b.den)

\* row a dominates row b: no more volatile, no lower in return, one strictly
Dominates(a, b) ==
  /\ FLeq(a.volatility, b.volatility)
  /\ RLeq(b.return, a.return)
  /\ FLt(a.volatility, b.volatility) \/ RLt(b.return, a.return)

\* the row at position k of the sorted table is not below any row before it
AtRunningMax(k) == \A j \in 1..k : RLeq(sorted[j].return, sorted[k].return)

\* df is the rows of the sorted table at the positions K, in that order
FrontierIsRowsAt(K) ==
  /\ Len(df) = Cardinality(K)
  /\ \A k \in K : df[Cardinality({j \in K : j <= k})] = sorted[k]

C2_FrontierMonotone ==
  Returned("efficient_frontier") =>
    \A k \in 1..(Len(out.value) - 1) :
      /\ FLeq(out.value[k].volatility, out.value[k + 1].volatility)
      /\ RLeq(out.value[k].return, out.value[k + 1].return)

C2_Witness ==
  /\ Returned("efficient_frontier")
  /\ Len(out.value) >= 2
  /\ Len(out.value) < Len(data)
  /\ \E k \in 1..(Len(out.value) - 1) :
       /\ FLt(out.value[k].volatility, out.value[k + 1].volatility)
       /\ RLt(out.value[k].return, out.value[k + 1].return)
  /\ \E k \in 1..(Len(data) - 1) : FLt(data[k + 1].volatility, data[k].volatility)

\* C3: the table returned by efficient_frontier is exactly the non-dominated
\* subset of the swept rows: a swept row is in the output if and only if no
\* other swept row dominates it, ties in volatility or return included.
C3_ParetoSubset ==
  Returned("efficient_frontier") =>
    \A k \in 1..Len(data) :
      (\E m \in 1..Len(out.value) : out.value[m] = data[k])
        <=> ~(\E j \in 1..Len(data) : Dominates(data[j], data[k]))

\* C4: prepare_returns fails with InsufficientDataError exactly when the
\* price table has fewer than 2 rows.
C4_InsufficientData ==
  Returned("prepare_returns") =>
    (Len(prices.rows) < 2 <=> out.raised = "InsufficientDataError")

\* C5: portfolio_performance fails with InvalidCovarianceError whenever the
\* radicand w' sigma w is negative; when the radicand is zero it returns,
\* with Sharpe not-a-number.
C5_InvalidCovariance ==
  Returned("portfolio_performance") =>
    LET r == Quad(calls[1].w, sigma)
    IN /\ r < 0 => out.raised = "InvalidCovarianceError"
       /\ r = 0 => out.raised = "none" /\ IsNaN(out.value[3])

C7_NoRaiseOnNonConvergence ==
  /\ out.raised = "none"
  /\ FrontierRunning =>
       /\ Len(data) = Len(calls)
       /\ Len(data) > 0 => data[Len(data)].volatility = res.fun
       /\ pc = "done" => Len(data) = points
  /\ (Returned("global_min_variance") \/ Returned("max_sharpe_ratio"))
       => out.value = res.x

C7_Witness ==
  /\ Returned("efficient_frontier")
  /\ points >= 2
  /\ Len(data) = points
  /\ ~res.success
  /\ ~Satisfies(res.x, calls[Len(calls)].cons)

\* C8: every row of simulate_random_portfolios equals the triple that
\* portfolio_performance returns for the same draw, zero-volatility draws
\* (Sharpe not-a-number) included.
C8_SimulateMatchesPerformance ==
  Returned("simulate_random_portfolios") =>
    \A i \in 1..Len(out.value) :
      LET p == portfolio_performance(calls[1].w[i], mu, sigma, calls[1].rf).value
      IN out.value[i] = FRow(p[1], p[2], p[3])

\* C9: efficient_frontier invokes the optimizer once per target, in target
\* order, for `points` targets evenly spaced from min(mu) to max(mu); the
\* k-th invocation is constrained by sum(w) = 1 and w.mu = the k-th target,
\* and its row is (k-th target, objective value of that invocation).
C9_SweepPerTarget ==
  FrontierRunning =>
    /\ Len(targets) = points
    /\ points >= 1 => REq(targets[1], Rat(Min(Range(mu)), 1))
    /\ points >= 2 => REq(targets[points], Rat(Max(Range(mu)), 1))
    /\ \A k \in 1..(points - 2) :
         REq(RSub(targets[k + 1], targets[k]), RSub(targets[k + 2], targets[k + 1]))
    /\ Len(calls) = Len(data) /\ Len(data) <= points
    /\ pc = "done" => Len(data) = points
    /\ \A k \in 1..Len(calls) :
         /\ calls[k].obj = VolObj(sigma)
         /\ calls[k].cons = <<SumCon, RetCon(mu, targets[k])>>
         /\ data[k].return = targets[k]
    /\ Len(data) > 0 => data[Len(data)].volatility = res.fun

C9_Witness ==
  /\ Returned("efficient_frontier")
  /\ points = MaxPoints
  /\ Len(calls) = points
  /\ Min(Range(mu)) = 0 /\ Max(Range(mu)) > 0
  /\ res.success

\* C10 as stated: the output is a prefix of the table sorted by volatility,
\* every kept row is at the running maximum of the returns, and no row is
\* kept after a dropped one.
C10_PrefixOnly ==
  Returned("efficient_frontier") =>
    \E p \in 0..Len(sorted) :
      /\ FrontierIsRowsAt(1..p)
      /\ \A k \in 1..p : AtRunningMax(k)

\* C10, amended: the sweep is sorted by ascending volatility and the output
\* is, in that order, exactly the rows whose return is greater than or equal
\* to every return before them; rows after a dropped row may be kept.
C10_RunningMaxSubsequence ==
  Returned("efficient_frontier") =>
    /\ Len(sorted) = Len(data)
    /\ \A r \in Range(data) \cup Range(sorted) :
         Cardinality({k \in 1..Len(data) : data[k] = r})
           = Cardinality({k \in 1..Len(sorted) : sorted[k] = r})
    /\ SortedByVolatility(sorted)
    /\ FrontierIsRowsAt({k \in 1..Len(sorted) : AtRunningMax(k)})

C10_Witness ==
  /\ Returned("efficient_frontier")
  /\ res.success
  /\ \E j, k \in 1..Len(sorted) : j < k /\ ~AtRunningMax(j) /\ AtRunningMax(k)

(* ------------------------- supporting lemmas --------------------------- *)
\* Where the refuted statements do hold (each an invariant of the
\* specification named).

\* Spec: a converged run returns a feasible weight vector.
ConvergedIsFeasible ==
  ((Returned("global_min_variance") \/ Returned("max_sharpe_ratio")) /\ res.success)
    => IsWeightVector(out.value)

\* Spec: a converged global_min_variance is no more volatile than equal weights.
ConvergedNoWorseThanEqualWeight ==
  (Returned("global_min_variance") /\ res.success)
    => FLeq(FSqrt(Quad(out.value, sigma)), FSqrt(Quad(EqualWeight(Len(mu)), sigma)))

\* Spec: the frontier is the Pareto subset when no two swept rows of
\* different return have the same volatility.
ParetoWithoutVolatilityTies ==
  (\A j, k \in 1..Len(data) :
     data[j].volatility = data[k].volatility => data[j] = data[k])
    => C3_ParetoSubset

\* SpecPerf: the sampler's row is portfolio_performance's triple for every
\* draw whose volatility is not zero.
SimulateMatchesOffZeroVolatility ==
  Returned("simulate_random_portfolios") =>
    \A i \in 1..Len(out.value) :
      LET p == portfolio_performance(calls[1].w[i], mu, sigma, calls[1].rf).value
      IN out.value[i].volatility # Num(0) => out.value[i] = FRow(p[1], p[2], p[3])

\* SpecPerf: portfolio_performance always returns; Sharpe is NaN exactly when
\* the radicand is zero or negative.
PerformanceAlwaysReturns ==
  Returned("portfolio_performance") =>
    /\ out.raised = "none"
    /\ IsNaN(out.value[3]) <=> Quad(calls[1].w, sigma) <= 0

\* SpecRet: prepare_returns always returns; with fewer than 2 rows the
\* return table is empty and the moments are NaN.
PrepareReturnsAlwaysReturns ==
  Returned("prepare_returns") =>
    /\ out.raised = "none"
    /\ Len(out.value[1]) = (IF Len(prices.rows) = 0 THEN 0 ELSE Len(prices.rows) - 1)
    /\ Len(prices.rows) < 2 =>
         /\ out.value[1] = <<>>
         /\ \A c \in 1..prices.cols : IsNaN(out.value[2][c])
         /\ \A a, b \in 1..prices.cols : IsNaN(out.value[3][a][b])

====
